---- MODULE Spec2Model ----
(***************************************************************************)
(* Model of freefall.py: the Freefall class (five validated fields, their  *)
(* setters, properties(), terminal()) and the fixed-step simulation loop   *)
(* of _calculator() behind air_time() and landing_speed().                 *)
(*                                                                         *)
(* Python values are records [ty, k, m, e]:                                *)
(*   ty  the Python type ("int", "float", "bool", "str", "NoneType",       *)
(*       "complex", or the name of a raised exception when k = "exc"),     *)
(*   k   "int"  an exact integer m (int and bool),                         *)
(*       "fin"  a finite float of value m * 2^e,                           *)
(*       "inf"  an infinite float of sign m,                               *)
(*       "nan"  the float NaN,                                             *)
(*       "obj"  a value that is not a number,                              *)
(*       "exc"  an exception raised while evaluating an expression.        *)
(* Floats are IEEE-754 binary floats of reduced width: MantBits bits of    *)
(* mantissa, exponents -MinExp .. MaxExp, gradual underflow, round to      *)
(* nearest even, overflow to infinity.                                     *)
(***************************************************************************)
EXTENDS Integers, Sequences, FiniteSets, TLC

\* ----------------------------------------------------------------------
\* Width of the float format and size of the explored runs
\* ----------------------------------------------------------------------
MantBits == 8

MaxExp == 13

MinExp == 24

MaxSteps == 8

\* ----------------------------------------------------------------------
\* Integer helpers
\* ----------------------------------------------------------------------
Abs(n) == IF n < 0 THEN 0 - n ELSE n

Sgn(n) == IF n < 0 THEN 0 - 1 ELSE 1

Max(a, b) == IF a >= b THEN a ELSE b

RECURSIVE BitLen(_)
BitLen(n) == IF n = 0 THEN 0 ELSE 1 + BitLen(n \div 2)

\* q + 1 when the remainder r of a division by 2 * half calls for rounding
\* up (round to nearest, ties to even), else q
RoundUp(q, r, half) ==
    IF r > half \/ (r = half /\ q % 2 = 1) THEN q + 1 ELSE q

\* M / 2^k rounded to the nearest integer, ties to even (M >= 0, k >= 0)
RoundShift(M, k) ==
    IF k = 0 THEN M
    ELSE IF k > BitLen(M) + 1 THEN 0
    ELSE RoundUp(M \div (2 ^ k), M % (2 ^ k), 2 ^ (k - 1))

RECURSIVE ISqrtIn(_, _, _)
ISqrtIn(lo, hi, n) ==
    IF lo >= hi THEN lo
    ELSE IF ((lo + hi + 1) \div 2) * ((lo + hi + 1) \div 2) <= n
    THEN ISqrtIn((lo + hi + 1) \div 2, hi, n)
    ELSE ISqrtIn(lo, ((lo + hi + 1) \div 2) - 1, n)

\* floor of the square root of n >= 0
ISqrt(n) == ISqrtIn(0, 2 ^ ((BitLen(n) + 1) \div 2), n)

\* ----------------------------------------------------------------------
\* Python values
\* ----------------------------------------------------------------------
PyInt(n) == [ty |-> "int", k |-> "int", m |-> n, e |-> 0]

PyBool(b) == [ty |-> "bool", k |-> "int", m |-> IF b THEN 1 ELSE 0, e |-> 0]

PyStr == [ty |-> "str", k |-> "obj", m |-> 0, e |-> 0]

PyNone == [ty |-> "NoneType", k |-> "obj", m |-> 0, e |-> 0]

PyComplex == [ty |-> "complex", k |-> "obj", m |-> 0, e |-> 0]

NaN == [ty |-> "float", k |-> "nan", m |-> 0, e |-> 0]

Inf(s) == [ty |-> "float", k |-> "inf", m |-> s, e |-> 0]

FZero == [ty |-> "float", k |-> "fin", m |-> 0, e |-> 0]

Raise(name) == [ty |-> name, k |-> "exc", m |-> 0, e |-> 0]

IsExc(x) == x.k = "exc"

\* the float s * M * 2^E of a mantissa already rounded to MantBits bits:
\* zero, infinity on overflow of the exponent, else the finite float
Pack(s, M, E) ==
    IF M = 0 THEN FZero
    ELSE IF M = 2 ^ MantBits
    THEN IF E + 1 > MaxExp THEN Inf(s)
         ELSE [ty |-> "float", k |-> "fin",
               m |-> s * (2 ^ (MantBits - 1)), e |-> E + 1]
    ELSE IF E > MaxExp THEN Inf(s)
    ELSE [ty |-> "float", k |-> "fin", m |-> s * M, e |-> E]

\* s * M * 2^E with the mantissa shifted right by k binary places (left
\* when k < 0) and rounded
NormShift(s, M, E, k) ==
    IF k >= 0 THEN Pack(s, RoundShift(M, k), E + k)
    ELSE Pack(s, M * (2 ^ (0 - k)), E + k)

\* The float nearest to s * M * 2^E (M >= 0): the rounding every float
\* operation applies to its exact result.
Norm(s, M, E) ==
    IF M = 0 THEN FZero
    ELSE NormShift(s, M, E, Max(BitLen(M) - MantBits, (0 - MinExp) - E))

\* int -> float conversion applied to an int operand of a float operation
AsFloat(x) == IF x.k = "int" THEN Norm(Sgn(x.m), Abs(x.m), 0) ELSE x

\* the quotient n / B of two naturals as a float scaled by 2^E, with the
\* remainder folded into a sticky bit
QuotScaled(s, n, B, E) ==
    Norm(s, 2 * (n \div B) + (IF n % B = 0 THEN 0 ELSE 1), E)

QuotShift(s, A, EA, B, EB, sh) ==
    QuotScaled(s, A * (2 ^ sh), B, EA - EB - sh - 1)

\* correctly rounded quotient (s * A * 2^EA) / (B * 2^EB), A >= 0, B > 0
Quot(s, A, EA, B, EB) ==
    IF A = 0 THEN FZero
    ELSE QuotShift(s, A, EA, B, EB,
                   Max(0, MantBits + 2 + BitLen(B) - BitLen(A)))

\* a float literal num/den of the source text
Lit(num, den) == Quot(1, num, 0, den, 0)

\* the smallest positive float (5e-324 in the double format)
TinyFloat == Norm(1, 1, 0 - MinExp)

IsZero(x) == x.k \in {"int", "fin"} /\ x.m = 0

Neg(x) ==
    IF x.k \in {"int", "fin", "inf"} THEN [x EXCEPT !.m = 0 - x.m] ELSE x

NormSigned(t, E) == Norm(Sgn(t), Abs(t), E)

\* the sum of two finite nonzero floats, aligned at the lower exponent lo
AddAligned(x, y, lo) ==
    NormSigned(x.m * (2 ^ (x.e - lo)) + y.m * (2 ^ (y.e - lo)), lo)

\* the sum of two floats
AddFloat(x, y) ==
    IF x.k = "nan" \/ y.k = "nan" THEN NaN
    ELSE IF x.k = "inf" /\ y.k = "inf" THEN IF x.m = y.m THEN x ELSE NaN
    ELSE IF x.k = "inf" THEN x
    ELSE IF y.k = "inf" THEN y
    ELSE IF x.m = 0 THEN y
    ELSE IF y.m = 0 THEN x
    ELSE IF x.e - y.e > MantBits + 2 THEN x
    ELSE IF y.e - x.e > MantBits + 2 THEN y
    ELSE AddAligned(x, y, IF x.e < y.e THEN x.e ELSE y.e)

\* a + b
Add(a, b) ==
    IF IsExc(a) THEN a
    ELSE IF IsExc(b) THEN b
    ELSE IF a.k = "int" /\ b.k = "int" THEN PyInt(a.m + b.m)
    ELSE AddFloat(AsFloat(a), AsFloat(b))

\* a - b
Sub(a, b) == Add(a, Neg(b))

\* the product of two floats
MulFloat(x, y) ==
    IF x.k = "nan" \/ y.k = "nan" THEN NaN
    ELSE IF x.k = "inf" \/ y.k = "inf"
    THEN IF x.m = 0 \/ y.m = 0 THEN NaN ELSE Inf(Sgn(x.m) * Sgn(y.m))
    ELSE Norm(Sgn(x.m) * Sgn(y.m), Abs(x.m) * Abs(y.m), x.e + y.e)

\* a * b
Mul(a, b) ==
    IF IsExc(a) THEN a
    ELSE IF IsExc(b) THEN b
    ELSE IF a.k = "int" /\ b.k = "int" THEN PyInt(a.m * b.m)
    ELSE MulFloat(AsFloat(a), AsFloat(b))

\* the quotient of two floats, the divisor not zero
DivFloat(x, y) ==
    IF x.k = "nan" \/ y.k = "nan" THEN NaN
    ELSE IF x.k = "inf"
    THEN IF y.k = "inf" THEN NaN ELSE Inf(x.m * Sgn(y.m))
    ELSE IF y.k = "inf" THEN FZero
    ELSE Quot(Sgn(x.m) * Sgn(y.m), Abs(x.m), x.e, Abs(y.m), y.e)

\* a / b (true division)
Div(a, b) ==
    IF IsExc(a) THEN a
    ELSE IF IsExc(b) THEN b
    ELSE IF IsZero(b) THEN Raise("ZeroDivisionError")
    ELSE IF a.k = "int" /\ b.k = "int"
    THEN Quot(Sgn(a.m) * Sgn(b.m), Abs(a.m), 0, Abs(b.m), 0)
    ELSE DivFloat(AsFloat(a), AsFloat(b))

\* a float power that overflows raises OverflowError
RaiseIfInf(r) == IF r.k = "inf" THEN Raise("OverflowError") ELSE r

\* v ** 2
Square(v) ==
    IF IsExc(v) THEN v
    ELSE IF v.k = "int" THEN PyInt(v.m * v.m)
    ELSE IF v.k = "nan" THEN NaN
    ELSE IF v.k = "inf" THEN Inf(1)
    ELSE RaiseIfInf(Norm(1, v.m * v.m, 2 * v.e))

\* the square root of n * 2^E (E even), from the integer root r of n
RootFrom(n, r, E) ==
    Norm(1, 2 * r + (IF r * r = n THEN 0 ELSE 1), (E \div 2) - 1)

RootScaled(n, E) == RootFrom(n, ISqrt(n), E)

\* the square root of M * 2^E, M > 0, the mantissa first widened by sh
\* places, one more when that leaves the exponent odd
RootShift(M, E, sh) ==
    IF (E - sh) % 2 = 0 THEN RootScaled(M * (2 ^ sh), E - sh)
    ELSE RootScaled(M * (2 ^ (sh + 1)), E - sh - 1)

RootFloat(x) ==
    IF x.k = "nan" THEN NaN
    ELSE IF x.k = "inf" THEN IF x.m > 0 THEN x ELSE PyComplex
    ELSE IF x.m = 0 THEN FZero
    ELSE IF x.m < 0 THEN PyComplex
    ELSE RootShift(x.m, x.e, Max(0, 2 * MantBits + 4 - BitLen(x.m)))

\* x ** 0.5
SquareRoot(a) == IF IsExc(a) THEN a ELSE RootFloat(AsFloat(a))

\* round(x, 2)
Round2(x) ==
    IF IsExc(x) THEN x
    ELSE IF x.k = "obj" THEN Raise("TypeError")
    ELSE IF x.k \in {"int", "nan", "inf"} THEN x
    ELSE IF x.e >= 0
    THEN Quot(Sgn(x.m), Abs(x.m) * 100 * (2 ^ x.e), 0, 100, 0)
    ELSE Quot(Sgn(x.m), RoundShift(Abs(x.m) * 100, 0 - x.e), 0, 100, 0)

\* the comparisons of the source; every comparison with NaN is false
Sign(x) == IF x.m > 0 THEN 1 ELSE IF x.m < 0 THEN 0 - 1 ELSE 0

IsNaN(x) == x.k = "nan"

\* the order of two numbers from their difference d: -1, 0, 1, or 2 when
\* they are unordered or equal infinities
CmpDiff(d) == IF d.k = "nan" THEN 2 ELSE Sign(d)

Cmp(a, b) ==
    IF IsNaN(a) \/ IsNaN(b) THEN 2
    ELSE IF a.k = "inf" /\ b.k = "inf" /\ a.m = b.m THEN 0
    ELSE CmpDiff(Sub(a, b))

\* a < b
Less(a, b) == Cmp(a, b) = 0 - 1

\* a == b
Equal(a, b) == Cmp(a, b) = 0

\* a <= b
LessEq(a, b) == Cmp(a, b) \in {0 - 1, 0}

\* a > b
Greater(a, b) == Cmp(a, b) = 1

\* a >= b
GreaterEq(a, b) == Cmp(a, b) \in {0, 1}

\* isinstance(x, (int, float)); bool is a subclass of int
IsIntOrFloat(x) == x.ty \in {"int", "float", "bool"}

\* ----------------------------------------------------------------------
\* class Freefall
\* ----------------------------------------------------------------------
VARIABLES
    constructed,    \* TRUE once __init__ has returned normally
    self,           \* the instance attributes _m, _A, _C, _p, _g
    call,           \* the most recent call: method, arguments, outcome
    written,        \* per attribute, the last value a successful call
                    \* was asked to store
    pc,             \* "idle", or "loop" inside the while loop of _calculator
    height,         \* _calculator: remaining height
    v,              \* _calculator: current speed
    t,              \* _calculator: elapsed time
    time_vector,    \* _calculator: the times recorded so far
    speed_vector,   \* _calculator: the speeds recorded so far
    prev            \* the previous completed air_time / landing_speed call

objvars == <<constructed, self, written>>

simvars == <<pc, height, v, t, time_vector, speed_vector, prev>>

vars == <<constructed, self, call, written,
          pc, height, v, t, time_vector, speed_vector, prev>>

Unset == [ty |-> "unset", k |-> "obj", m |-> 0, e |-> 0]

Omitted == [ty |-> "omitted", k |-> "obj", m |-> 0, e |-> 0]

Fields == {"_m", "_A", "_C", "_p", "_g"}

NoCall == [op |-> "none", args |-> <<>>, out |-> PyNone]

\* the outcome of a call: the value it returns or the exception it raises
Returned(s, val) == [self |-> s, out |-> val]

default_density == Lit(12, 10)

default_gravity == Lit(981, 100)

\* def __init__(self, mass, area, drag_coef=1, density=1.2, gravity=9.81)
__init__(s, mass, area, drag_coef_, density_, gravity_) ==
    LET drag_coef == IF drag_coef_ = Omitted THEN PyInt(1) ELSE drag_coef_
        density   == IF density_ = Omitted THEN default_density ELSE density_
        gravity   == IF gravity_ = Omitted THEN default_gravity ELSE gravity_
    IN  IF \E arg \in {mass, area, drag_coef, density, gravity} :
               ~IsIntOrFloat(arg)
        THEN Returned(s, Raise("TypeError"))
        ELSE IF \E arg \in {mass, area, drag_coef, gravity} :
                    LessEq(arg, PyInt(0))
        THEN Returned(s, Raise("ValueError"))
        ELSE IF GreaterEq(drag_coef, PyInt(2)) \/ Less(density, PyInt(0))
        THEN Returned(s, Raise("ValueError"))
        ELSE Returned([_m |-> mass, _A |-> area, _C |-> drag_coef,
                       _p |-> density, _g |-> gravity], PyNone)

set_drag_coef(s, drag_coef) ==
    IF ~IsIntOrFloat(drag_coef)
    THEN Returned(s, Raise("TypeError"))
    ELSE IF LessEq(drag_coef, PyInt(0)) \/ GreaterEq(drag_coef, PyInt(2))
    THEN Returned(s, Raise("ValueError"))
    ELSE Returned([s EXCEPT !._C = drag_coef], PyNone)

\* set_density with the assignment aimed at the wrong attribute
set_density_wrong_field(s, density) ==
    IF ~IsIntOrFloat(density)
    THEN Returned(s, Raise("TypeError"))
    ELSE IF Less(density, PyInt(0))
    THEN Returned(s, Raise("ValueError"))
    ELSE Returned([s EXCEPT !._g = density], PyNone)

set_density(s, density) ==
    IF ~IsIntOrFloat(density)
    THEN Returned(s, Raise("TypeError"))
    ELSE IF Less(density, PyInt(0))
    THEN Returned(s, Raise("ValueError"))
    ELSE Returned([s EXCEPT !._p = density], PyNone)

set_gravity(s, gravity) ==
    IF ~IsIntOrFloat(gravity)
    THEN Returned(s, Raise("TypeError"))
    ELSE IF LessEq(gravity, PyInt(0))
    THEN Returned(s, Raise("ValueError"))
    ELSE Returned([s EXCEPT !._g = gravity], PyNone)

\* set_size validating and storing the mass before it looks at the area
set_size_partial(s, mass, area) ==
    IF ~IsIntOrFloat(mass)
    THEN Returned(s, Raise("TypeError"))
    ELSE IF LessEq(mass, PyInt(0))
    THEN Returned(s, Raise("ValueError"))
    ELSE LET s1 == [s EXCEPT !._m = mass]
         IN  IF ~IsIntOrFloat(area)
             THEN Returned(s1, Raise("TypeError"))
             ELSE IF LessEq(area, PyInt(0))
             THEN Returned(s1, Raise("ValueError"))
             ELSE Returned([s1 EXCEPT !._A = area], PyNone)

set_size(s, mass, area) ==
    IF ~IsIntOrFloat(mass) \/ ~IsIntOrFloat(area)
    THEN Returned(s, Raise("TypeError"))
    ELSE IF LessEq(mass, PyInt(0)) \/ LessEq(area, PyInt(0))
    THEN Returned(s, Raise("ValueError"))
    ELSE Returned([s EXCEPT !._m = mass, !._A = area], PyNone)

Dict(items) == [ty |-> "dict", k |-> "obj", m |-> 0, e |-> 0, items |-> items]

properties(s) ==
    Dict([label \in {"m (kg)", "A (m^2)", "C", "p (kg/(m^3))", "g (m/(s^2))"}
            |-> CASE label = "m (kg)" -> s._m
                  [] label = "A (m^2)" -> s._A
                  [] label = "C" -> s._C
                  [] label = "p (kg/(m^3))" -> s._p
                  [] label = "g (m/(s^2))" -> s._g])

terminal(s) ==
    IF Equal(s._p, PyInt(0)) THEN PyNone
    ELSE LET v_term ==
                 SquareRoot(Div(Mul(Mul(PyInt(2), s._m), s._g),
                                Mul(Mul(s._p, s._C), s._A)))
         IN  Round2(v_term)

\* ----------------------------------------------------------------------
\* The calls a client makes on the object
\* ----------------------------------------------------------------------
ArgValues ==
    {PyStr, PyBool(TRUE), PyInt(0 - 1), PyInt(0), Lit(1, 2), NaN, Inf(1)}

\* the attributes a successful call stores, with the argument stored in each
Stored(op, args) ==
    CASE op = "__init__" ->
             [_m |-> args[1], _A |-> args[2],
              _C |-> IF args[3] = Omitted THEN PyInt(1) ELSE args[3],
              _p |-> IF args[4] = Omitted THEN Lit(12, 10) ELSE args[4],
              _g |-> IF args[5] = Omitted THEN Lit(981, 100) ELSE args[5]]
      [] op = "set_size" -> [_m |-> args[1], _A |-> args[2]]
      [] op = "set_drag_coef" -> [_C |-> args[1]]
      [] op = "set_density" -> [_p |-> args[1]]
      [] op = "set_gravity" -> [_g |-> args[1]]

\* w with the attributes of stored replaced
Overwrite(w, stored) ==
    [f \in Fields |-> IF f \in DOMAIN stored THEN stored[f] ELSE w[f]]

Record(op, args, r) ==
    /\ self' = r.self
    /\ call' = [op |-> op, args |-> args, out |-> r.out]
    /\ written' = IF IsExc(r.out) THEN written
                  ELSE Overwrite(written, Stored(op, args))

Constructed(args, r) ==
    /\ Record("__init__", args, r)
    /\ constructed' = ~IsExc(r.out)

\* one object is followed from its construction on; a construction that
\* raises yields no object
Construct ==
    /\ ~constructed /\ call = NoCall
    /\ \E mass, area \in ArgValues :
       \E drag_coef, density, gravity \in ArgValues \cup {Omitted} :
          Constructed(<<mass, area, drag_coef, density, gravity>>,
                      __init__(self, mass, area, drag_coef, density, gravity))
    /\ UNCHANGED simvars

SetDragCoef ==
    /\ constructed /\ pc = "idle"
    /\ \E drag_coef \in ArgValues :
          Record("set_drag_coef", <<drag_coef>>,
                 set_drag_coef(self, drag_coef))
    /\ UNCHANGED <<constructed, simvars>>

SetDensity ==
    /\ constructed /\ pc = "idle"
    /\ \E density \in ArgValues :
          Record("set_density", <<density>>, set_density(self, density))
    /\ UNCHANGED <<constructed, simvars>>

SetGravity ==
    /\ constructed /\ pc = "idle"
    /\ \E gravity \in ArgValues :
          Record("set_gravity", <<gravity>>, set_gravity(self, gravity))
    /\ UNCHANGED <<constructed, simvars>>

SetSize ==
    /\ constructed /\ pc = "idle"
    /\ \E mass, area \in ArgValues :
          Record("set_size", <<mass, area>>, set_size(self, mass, area))
    /\ UNCHANGED <<constructed, simvars>>

Properties ==
    /\ constructed /\ pc = "idle"
    /\ call' = [op |-> "properties", args |-> <<>>, out |-> properties(self)]
    /\ UNCHANGED <<objvars, simvars>>

Terminal ==
    /\ constructed /\ pc = "idle"
    /\ call' = [op |-> "terminal", args |-> <<>>, out |-> terminal(self)]
    /\ UNCHANGED <<objvars, simvars>>

SimIdle ==
    /\ pc = "idle"
    /\ height = PyNone /\ v = PyNone /\ t = PyNone
    /\ time_vector = <<>> /\ speed_vector = <<>>
    /\ prev = NoCall

Init ==
    /\ constructed = FALSE
    /\ self = [f \in Fields |-> Unset]
    /\ call = NoCall
    /\ written = [f \in Fields |-> Unset]
    /\ SimIdle

Next ==
    \/ Construct
    \/ SetDragCoef
    \/ SetDensity
    \/ SetGravity
    \/ SetSize
    \/ Properties
    \/ Terminal

Spec == Init /\ [][Next]_vars

\* ----------------------------------------------------------------------
\* air_time, landing_speed and the loop of _calculator
\* ----------------------------------------------------------------------
step == Lit(1, 100)

Pending == [ty |-> "pending", k |-> "obj", m |-> 0, e |-> 0]

Last(seq) == seq[Len(seq)]

\* drag = 0.5*self._C*self._p*self._A*v**2
drag(s, v_) ==
    Mul(Mul(Mul(Mul(Lit(1, 2), s._C), s._p), s._A), Square(v_))

\* acc = self._g-drag/self._m
acc(s, v_) == Sub(s._g, Div(drag(s, v_), s._m))

\* v = v+acc*step
next_v(s, v_) == Add(v_, Mul(acc(s, v_), step))

\* height = height-v*step
next_height(height_, v_) == Sub(height_, Mul(v_, step))

\* t += step
next_t(t_) == Add(t_, step)

\* air_time with the index of landing_speed
air_time_result_speed(vectors) == Round2(Last(vectors[2]))

\* t_air = self._calculator(height)[0][-1]; return round(t_air, 2)
air_time_result(vectors) == Round2(Last(vectors[1]))

\* v_land = self._calculator(height)[1][-1]; return round(v_land, 2)
landing_speed_result(vectors) == Round2(Last(vectors[2]))

\* the argument check shared by air_time and landing_speed
height_check(height_) ==
    IF ~IsIntOrFloat(height_) THEN Raise("TypeError")
    ELSE IF LessEq(height_, PyInt(0)) THEN Raise("ValueError")
    ELSE PyNone

HeightValues ==
    {PyStr, PyInt(0), NaN, Inf(1),
     Lit(5, 10000), Lit(1, 1000), Lit(2, 1000), Lit(5, 1000)}

ResetLocals ==
    /\ pc' = "idle"
    /\ height' = PyNone /\ v' = PyNone /\ t' = PyNone
    /\ time_vector' = <<>> /\ speed_vector' = <<>>

\* a call of air_time or landing_speed up to the first test of the loop
Entered(op, height_, checked) ==
    /\ prev' = call
    /\ IF IsExc(checked)
       THEN /\ call' = [op |-> op, args |-> <<height_>>, out |-> checked]
            /\ UNCHANGED <<pc, height, v, t, time_vector, speed_vector>>
       ELSE /\ call' = [op |-> op, args |-> <<height_>>, out |-> Pending]
            /\ pc' = "loop"
            /\ height' = height_
            /\ v' = PyInt(0)
            /\ t' = PyInt(0)
            /\ time_vector' = <<PyInt(0)>>
            /\ speed_vector' = <<PyInt(0)>>

Enter(op, height_) == Entered(op, height_, height_check(height_))

AirTime ==
    /\ constructed /\ pc = "idle"
    /\ \E height_ \in HeightValues : Enter("air_time", height_)
    /\ UNCHANGED objvars

LandingSpeed ==
    /\ constructed /\ pc = "idle"
    /\ \E height_ \in HeightValues : Enter("landing_speed", height_)
    /\ UNCHANGED objvars

\* the rest of an iteration once the new speed v1 is computed; an
\* exception raised on the way ends the call
Iterated(v1) ==
    IF IsExc(v1)
    THEN /\ call' = [call EXCEPT !.out = v1]
         /\ ResetLocals
    ELSE /\ v' = v1
         /\ speed_vector' = Append(speed_vector, v1)
         /\ height' = next_height(height, v1)
         /\ t' = next_t(t)
         /\ time_vector' = Append(time_vector, t')
         /\ UNCHANGED <<pc, call>>

\* one iteration of: while height > 0
LoopStep ==
    /\ pc = "loop"
    /\ Greater(height, PyInt(0))
    /\ Len(time_vector) <= MaxSteps
    /\ Iterated(next_v(self, v))
    /\ UNCHANGED <<objvars, prev>>

\* the loop test fails: _calculator returns and the caller rounds
LoopExit ==
    /\ pc = "loop"
    /\ ~Greater(height, PyInt(0))
    /\ LET vectors == <<time_vector, speed_vector>>
       IN  call' = [call EXCEPT !.out =
                       IF call.op = "air_time" THEN air_time_result(vectors)
                       ELSE landing_speed_result(vectors)]
    /\ ResetLocals
    /\ UNCHANGED <<objvars, prev>>

\* the objects the simulation is run on, as constructor arguments
SimModels ==
    {<<PyInt(85), Lit(7, 10), Omitted, Omitted, Omitted>>,
     <<Lit(5, 10000), PyInt(1), Omitted, Omitted, Omitted>>,
     <<Lit(5, 10000), PyInt(30), Omitted, Omitted, Omitted>>,
     <<PyInt(85), Lit(7, 10), PyInt(1), PyInt(0), Lit(981, 100)>>,
     <<PyInt(85), PyInt(2 ^ MaxExp), PyInt(1), PyInt(2 ^ MaxExp),
       Lit(981, 100)>>,
     <<PyInt(85), Lit(7, 10), PyInt(1), Lit(12, 10), TinyFloat>>}

SimInit ==
    /\ \E a \in SimModels :
          LET r == __init__([f \in Fields |-> Unset],
                            a[1], a[2], a[3], a[4], a[5])
          IN  /\ ~IsExc(r.out)
              /\ constructed = TRUE
              /\ self = r.self
              /\ written = r.self
              /\ call = [op |-> "__init__", args |-> a, out |-> r.out]
    /\ SimIdle

SimNext ==
    \/ AirTime
    \/ LandingSpeed
    \/ LoopStep
    \/ LoopExit

SimSpec == SimInit /\ [][SimNext]_vars

\* ----------------------------------------------------------------------
\* Properties of the class
\* ----------------------------------------------------------------------

\* the ranges the checks of __init__ and of the setters are written for
ValidModel(s) ==
    /\ Greater(s._m, PyInt(0))
    /\ Greater(s._A, PyInt(0))
    /\ Greater(s._g, PyInt(0))
    /\ Greater(s._C, PyInt(0)) /\ Less(s._C, PyInt(2))
    /\ GreaterEq(s._p, PyInt(0))

\* C1: after a successful construction and any sequence of setter calls
\* the attributes satisfy mass > 0, area > 0, gravity > 0,
\* 0 < dragCoefficient < 2 and airDensity >= 0.
C1_FieldsInRange == constructed => ValidModel(self)

\* C2: a call that raises changes no attribute: a raising setter leaves all
\* five attributes as they were (set_size with one good and one bad
\* argument changes neither mass nor area), and a raising construction
\* assigns none.
C2_FailedCallChangesNothing ==
    [][IsExc(call'.out) => (self' = self /\ constructed' = constructed)]_vars

C2_Witness ==
    /\ constructed
    /\ call.op = "set_size" /\ call.out = Raise("ValueError")
    /\ Greater(call.args[1], PyInt(0)) /\ self._m # call.args[1]
    /\ LessEq(call.args[2], PyInt(0))

\* C3: every argument that is not an int or a float (text, boolean,
\* structured value) is rejected with TypeError, never accepted.
C3_NonNumbersRejected ==
    \A i \in DOMAIN call.args :
        call.args[i].ty \notin {"int", "float", "omitted"}
            => call.out = Raise("TypeError")

\* C4: properties() shows, under its five labels, the value most recently
\* written to each attribute by a successful constructor or setter call;
\* a setter writes only the attributes it names and properties() writes none.
C4_PropertiesShowLastWritten ==
    constructed =>
        LET expected ==
                [label \in {"m (kg)", "A (m^2)", "C", "p (kg/(m^3))",
                            "g (m/(s^2))"} |->
                    CASE label = "m (kg)" -> written._m
                      [] label = "A (m^2)" -> written._A
                      [] label = "C" -> written._C
                      [] label = "p (kg/(m^3))" -> written._p
                      [] label = "g (m/(s^2))" -> written._g]
        IN  /\ properties(self).items = expected
            /\ call.op = "properties" => call.out = Dict(expected)

C4_Witness ==
    /\ constructed
    /\ call.op = "properties"
    /\ call.out.items["g (m/(s^2))"] = Lit(981, 100)
    /\ call.out.items["p (kg/(m^3))"] = PyInt(0)
    /\ call.out.items["m (kg)"] = Lit(1, 2)
    /\ call.out.items["A (m^2)"] = Inf(1)

\* C5: terminal() returns None exactly when the air density is 0 and
\* otherwise returns a number; it never raises and never returns infinity.
C5_TerminalSentinel ==
    call.op = "terminal" =>
        /\ (call.out = PyNone) <=> Equal(self._p, PyInt(0))
        /\ call.out # PyNone => call.out.k \in {"int", "fin", "nan"}

\* a finished call of op on a height > 0 that returned a value
ReturnedFrom(c, op) ==
    /\ c.op = op
    /\ IsIntOrFloat(c.args[1]) /\ Greater(c.args[1], PyInt(0))
    /\ c.out # Pending /\ ~IsExc(c.out)

\* two calls of op in a row on the same object, the first on the lower
\* height, both of which returned
TwoHeights(op) ==
    /\ pc = "idle" /\ ValidModel(self)
    /\ ReturnedFrom(prev, op) /\ ReturnedFrom(call, op)
    /\ LessEq(prev.args[1], call.args[1])

\* C6: for a fixed valid model and heights 0 < h1 <= h2 on which the
\* simulation returns, air_time(h1) <= air_time(h2).
C6_AirTimeMonotone ==
    TwoHeights("air_time") => LessEq(prev.out, call.out)

C6_Witness ==
    /\ TwoHeights("air_time")
    /\ Less(prev.args[1], call.args[1])
    /\ Less(prev.out, call.out)

\* C7: for a fixed valid model and heights 0 < h1 <= h2 on which the
\* simulation returns, landing_speed never decreases from h1 to h2.
C7_LandingSpeedMonotone ==
    TwoHeights("landing_speed") => ~Greater(prev.out, call.out)

\* C8: on a valid model and a height > 0 the loop runs at least one step;
\* when 0 < height <= g*step*step it runs exactly one, air_time returns
\* round(step, 2) and landing_speed returns round(g*step, 2).
C8_FirstStep ==
    (/\ ValidModel(self)
     /\ call.op \in {"air_time", "landing_speed"}
     /\ IsIntOrFloat(call.args[1]) /\ Greater(call.args[1], PyInt(0)))
    => /\ (pc = "loop" /\ ~Greater(height, PyInt(0)))
              => Len(time_vector) >= 2
       /\ LessEq(call.args[1], Mul(Mul(self._g, step), step))
              => /\ pc = "loop" => Len(time_vector) <= 2
                 /\ pc = "idle" =>
                        call.out = IF call.op = "air_time"
                                   THEN Round2(step)
                                   ELSE Round2(Mul(self._g, step))

\* C9: on a valid model the speed never decreases from one step of the loop
\* to the next (and so never falls below its initial 0).
C9_SpeedNeverDecreases ==
    (ValidModel(self) /\ pc = "loop")
    => \A i \in 1 .. Len(speed_vector) - 1 :
           ~Less(speed_vector[i + 1], speed_vector[i])

\* C10: on a valid model and a height > 0 the loop ends with the remaining
\* height <= 0, so that air_time and landing_speed return a value.
C10_LoopReturnsValue ==
    (/\ ValidModel(self)
     /\ call.op \in {"air_time", "landing_speed"}
     /\ IsIntOrFloat(call.args[1]) /\ Greater(call.args[1], PyInt(0))
     /\ pc = "idle")
    => ~IsExc(call.out)

====
